---- MODULE Spec2Model ----
(***************************************************************************)
(* Model of psu_progs/charge_lithium_ion.py: charge_lithium_ion_battery    *)
(* and its inner _do_charge polling loop.                                  *)
(*                                                                         *)
(* Units: currents are integer milliamps, voltages integer millivolts,     *)
(* charge_cutoff_ratio is an integer percentage.  Means and the cutoff are *)
(* rationals; every comparison the code makes on them is done exactly by   *)
(* cross-multiplication (a mean is Sum/Len, the cutoff is ratio*cc/100).   *)
(* An Option reading is a sequence of length 0 (None) or 1 (a value).      *)
(***************************************************************************)
EXTENDS Integers, Sequences, FiniteSets, TLC

\* ---------------------------------------------------------------- bounds
MaxSamples == 2
MaxFailures == 2
MaxTicks == 3

\* ------------------------------------------------------ program constants
Inflection == 400
DefaultChargeVoltage == 4200

\* ------------------------------------------------------- input universes
Channels == -1 .. 2
\* <<charge_current in mA, charge_cutoff_ratio in percent>>:
\* b = (charge_current - cutoff) * 1000 is 9, 0, 360, 900 and 1
ChargeSettings ==
    {<<10, 10>>, <<10, 100>>, <<400, 10>>, <<1000, 10>>, <<5, 80>>}
\* milliamps; the means they produce are 5, 252.5 and 500 (and thirds)
CurrentValues == {5, 500}
VoltageValues == {3700, 4200}

Ok(v) == [exc |-> "none", val |-> <<v>>]
Absent == [exc |-> "none", val |-> <<>>]
Raises(e) == [exc |-> e, val |-> <<>>]

\* what a capability call inside the loop can raise
ReadExceptions == {"SerialException", "KeyboardInterrupt"}

ModeReads == {Ok(m) : m \in {"constant_current", "constant_voltage"}}
               \cup {Raises(e) : e \in ReadExceptions}
CurrentReads == {Ok(v) : v \in CurrentValues} \cup {Absent}
                  \cup {Raises(e) : e \in ReadExceptions}
VoltageReads == {Ok(v) : v \in VoltageValues} \cup {Absent}
                  \cup {Raises(e) : e \in ReadExceptions}

\* the three reads of one tick, in the order the loop makes them; a read that
\* is not reached because an earlier one raised is Absent
TickReads ==
    {r \in ModeReads \X CurrentReads \X VoltageReads :
        /\ r[1].exc # "none" => r[2] = Absent
        /\ r[2].exc # "none" \/ r[1].exc # "none" => r[3] = Absent}

VARIABLES
    channel, num_samples, max_successive_failures,
    charge_current, charge_cutoff_ratio, charge_voltage,
    initially_on,
    psu,
    pc, successive_failures, current_samples, voltage_samples,
    outcome, raised, raised_at, cause,
    tick, history

args == <<channel, num_samples, max_successive_failures,
          charge_current, charge_cutoff_ratio, charge_voltage, initially_on>>
locals == <<successive_failures, current_samples, voltage_samples>>
vars == <<args, psu, pc, locals, outcome, raised, raised_at, cause, tick, history>>

\* ------------------------------------------------ power-supply capability
output_off(p) == [p EXCEPT !.output = FALSE, !.calls = Append(@, "off")]
output_on(p) == [p EXCEPT !.output = TRUE, !.calls = Append(@, "on")]
status_output(p) == [p EXCEPT !.calls = Append(@, "status")]
set_voltage(p, v) == [p EXCEPT !.voltage = v, !.calls = Append(@, "setVoltage")]
set_current(p, a) == [p EXCEPT !.current = a, !.calls = Append(@, "setCurrent")]
ChannelExists(c) == c \in -2 .. 1

\* ----------------------------------------------------------- pure helpers
RECURSIVE Sum(_)
Sum(s) == IF s = <<>> THEN 0 ELSE Head(s) + Sum(Tail(s))

\* the last n elements of s
LastN(s, n) == IF Len(s) <= n THEN s ELSE SubSeq(s, Len(s) - n + 1, Len(s))

\* mutant: a full window drops its newest reading instead of its oldest
DequeAppend_EvictNewest(d, x, maxlen) ==
    IF maxlen = 0 THEN d
    ELSE IF Len(d) < maxlen THEN Append(d, x)
    ELSE Append(SubSeq(d, 1, Len(d) - 1), x)

\* deque(maxlen=maxlen).append(x)
DequeAppend(d, x, maxlen) ==
    IF maxlen = 0 THEN d
    ELSE IF Len(d) < maxlen THEN Append(d, x)
    ELSE Append(Tail(d), x)

Push(d, reading, maxlen) ==
    IF reading.val # <<>> THEN DequeAppend(d, reading.val[1], maxlen) ELSE d

\* mutant: the cutoff is tested on the instantaneous reading, not the mean
StopCondition_Instantaneous(samples, cc, ratio) ==
    100 * samples[Len(samples)] < ratio * cc

\* agg_current < cutoff, with agg_current = Sum/Len and cutoff = ratio*cc/100
StopCondition(samples, cc, ratio) ==
    100 * Sum(samples) < ratio * cc * Len(samples)

\* ------------------------------------------------- charge-level estimator
\* b = (charge_current - cutoff) * 1000, scaled by 100
LogBase100(cc, ratio) == cc * (100 - ratio)

\* n >= 1 with n = (agg_current - cutoff) * 1000
LogArgAtLeastOne(samples, cc, ratio) ==
    100 * Sum(samples) - ratio * cc * Len(samples) >= 100 * Len(samples)

\* agg_current > 0.4
AboveInflection(samples) == Sum(samples) > Inflection * Len(samples)

\* math.log(n, b) for n >= 1: log(n) / log(b)
MathLogError(b100) ==
    IF b100 <= 0 THEN "ValueError: math domain error"
    ELSE IF b100 = 100 THEN "ZeroDivisionError"
    ELSE "none"

\* A charge level is an enclosure [lo, hi] of rationals <<numerator,
\* denominator>> with denominator >= 0; <<1, 0>> is +infinity and <<-1, 0>>
\* is -infinity.  lo = hi wherever the code's expression is rational; the
\* logarithm is enclosed by what its argument and base determine exactly.
Exactly(num, den) ==
    IF den < 0 THEN [lo |-> <<-num, -den>>, hi |-> <<-num, -den>>]
    ELSE [lo |-> <<num, den>>, hi |-> <<num, den>>]

NoValue == Exactly(0, 1)

\* charge_level = 0.5 * agg_voltage / charge_voltage
CCLevel(vs, cv) == Exactly(Sum(vs), 2 * Len(vs) * cv)

\* linear_level = (charge_current - agg_current) / (charge_current - 0.4);
\* cc_level = 0.25 * linear_level; charge_level = 0.5 + 0.5 * cc_level
LinearLevel(cs, cc) ==
    LET N == cc * Len(cs) - Sum(cs)
        D == (cc - Inflection) * Len(cs)
    IN  Exactly(4 * D + N, 8 * D)

\* cc_level = (1 - math.log(n, b)) * 0.75 + 0.25, so that
\* charge_level = 0.5 + 0.5 * cc_level = 1 - 0.375 * log_b(n), for n >= 1 and
\* b > 0, b # 1.  With n100 = 100 * Len * n and b100 = 100 * b:
\*   n = 1 gives 1; n = b gives 5/8; 1 < n < b gives (5/8, 1);
\*   n > b > 1 gives below 5/8; b < 1 < n gives above 1.
LogLevel(cs, cc, ratio) ==
    LET len == Len(cs)
        n100 == 100 * Sum(cs) - ratio * cc * len
        b100 == LogBase100(cc, ratio)
    IN  IF n100 = 100 * len THEN Exactly(1, 1)
        ELSE IF b100 < 100 THEN [lo |-> <<1, 1>>, hi |-> <<1, 0>>]
        ELSE IF n100 = b100 * len THEN Exactly(5, 8)
        ELSE IF n100 < b100 * len THEN [lo |-> <<5, 8>>, hi |-> <<1, 1>>]
        ELSE [lo |-> <<-1, 0>>, hi |-> <<5, 8>>]

ChargeLevel(mode, cs, vs, cc, ratio, cv) ==
    IF mode = "constant_current"
    THEN IF cv = 0
         THEN [branch |-> "cc", error |-> "ZeroDivisionError", value |-> NoValue]
         ELSE [branch |-> "cc", error |-> "none", value |-> CCLevel(vs, cv)]
    ELSE IF AboveInflection(cs)
    THEN IF cc = Inflection
         THEN [branch |-> "linear", error |-> "ZeroDivisionError",
               value |-> NoValue]
         ELSE [branch |-> "linear", error |-> "none",
               value |-> LinearLevel(cs, cc)]
    ELSE IF LogArgAtLeastOne(cs, cc, ratio)
    THEN IF MathLogError(LogBase100(cc, ratio)) # "none"
         THEN [branch |-> "log", error |-> MathLogError(LogBase100(cc, ratio)),
               value |-> NoValue]
         ELSE [branch |-> "log", error |-> "none",
               value |-> LogLevel(cs, cc, ratio)]
    ELSE [branch |-> "one", error |-> "none", value |-> Exactly(1, 1)]

NoLevel == [branch |-> "none", error |-> "none", value |-> NoValue]

\* ------------------------------------------------------ body of the try:
\* mutant: the filled-buffer test is missing
BufferFilling_Never(cs, vs, maxlen) == FALSE

\* mutant: the filled-buffer test is off by one
BufferFilling_Inclusive(cs, vs, maxlen) == Len(cs) <= maxlen

\* the filled-buffer test of the loop
BufferFilling(cs, vs, maxlen) == Len(cs) < maxlen

MeanError(samples) == IF samples = <<>> THEN "StatisticsError" ELSE "none"

Raise(e, cs, vs) ==
    [exit |-> "raise", exc |-> e, cs |-> cs, vs |-> vs,
     computed |-> FALSE, level |-> NoLevel]

Decide(mode, cs, vs, cc, ratio, cv) ==
    LET level == ChargeLevel(mode, cs, vs, cc, ratio, cv)
    IN  IF MeanError(cs) # "none" THEN Raise(MeanError(cs), cs, vs)
        ELSE IF MeanError(vs) # "none" THEN Raise(MeanError(vs), cs, vs)
        ELSE IF level.error # "none"
        THEN [exit |-> "raise", exc |-> level.error, cs |-> cs, vs |-> vs,
              computed |-> TRUE, level |-> level]
        ELSE [exit |-> IF StopCondition(cs, cc, ratio) THEN "return" ELSE "else",
              exc |-> "none", cs |-> cs, vs |-> vs,
              computed |-> TRUE, level |-> level]

\* mutant: the None checks come before the appends, so that the reading
\* that is present on a tick with an absent one is not inserted
TryBody_CheckBeforeAppend(rm, rc, rv, cs, vs, maxlen, cc, ratio, cv) ==
    IF rm.exc # "none" THEN Raise(rm.exc, cs, vs)
    ELSE IF rc.exc # "none" THEN Raise(rc.exc, cs, vs)
    ELSE IF rv.exc # "none" THEN Raise(rv.exc, cs, vs)
    ELSE IF rc.val = <<>> THEN Raise("ValueError: output current", cs, vs)
    ELSE IF rv.val = <<>> THEN Raise("ValueError: output voltage", cs, vs)
    ELSE LET cs1 == Push(cs, rc, maxlen)
             vs1 == Push(vs, rv, maxlen)
         IN  IF BufferFilling(cs1, vs1, maxlen)
             THEN [exit |-> "continue", exc |-> "none", cs |-> cs1, vs |-> vs1,
                   computed |-> FALSE, level |-> NoLevel]
             ELSE Decide(rm.val[1], cs1, vs1, cc, ratio, cv)

\* the body of the try: up to the stop decision
TryBody(rm, rc, rv, cs, vs, maxlen, cc, ratio, cv) ==
    IF rm.exc # "none" THEN Raise(rm.exc, cs, vs)
    ELSE IF rc.exc # "none" THEN Raise(rc.exc, cs, vs)
    ELSE IF rv.exc # "none" THEN Raise(rv.exc, cs, vs)
    ELSE LET cs1 == Push(cs, rc, maxlen)
             vs1 == Push(vs, rv, maxlen)
         IN  IF rc.val = <<>> THEN Raise("ValueError: output current", cs1, vs1)
             ELSE IF rv.val = <<>> THEN Raise("ValueError: output voltage", cs1, vs1)
             ELSE IF BufferFilling(cs1, vs1, maxlen)
             THEN [exit |-> "continue", exc |-> "none", cs |-> cs1, vs |-> vs1,
                   computed |-> FALSE, level |-> NoLevel]
             ELSE Decide(rm.val[1], cs1, vs1, cc, ratio, cv)

\* mutant: a bare except, which also swallows KeyboardInterrupt
Caught_Everything(e) == TRUE

\* except Exception: KeyboardInterrupt derives from BaseException only
Caught(e) == e # "KeyboardInterrupt"

\* mutant: a threshold of 0 is taken to mean "no threshold"
ThresholdReached_ZeroDisables(failures, max) == max > 0 /\ failures >= max

\* mutant: the threshold test is strict
ThresholdReached_Late(failures, max) == failures > max

\* mutant: the threshold test is off by one
ThresholdReached_Early(failures, max) == failures + 1 >= max

ThresholdReached(failures, max) == failures >= max

\* mutant: the RuntimeError is raised without its cause
AbortCause_Dropped(e) == "none"

\* raise RuntimeError(...) from e
AbortCause(e) == e

\* mutant: no finally clause
Finally_Missing(p) == p

\* the finally: clause around _do_charge()
Finally(p) == output_off(p)

\* mutant: the reset calls the wrong output command when the output is off
ResetOutput_Toggles(p) ==
    IF p.output THEN output_off(status_output(p)) ELSE output_on(status_output(p))

\* mutant: the output state is queried but never reset
ResetOutput_Missing(p) == status_output(p)

\* the defensive reset before _do_charge()
ResetOutput(p) == IF p.output THEN output_off(status_output(p)) ELSE status_output(p)

\* ------------------------------------------------------------ state machine
NoTick == [result |-> "none", exc |-> "none", mode |-> "none", before |-> 0,
           computed |-> FALSE, level |-> NoLevel,
           current |-> <<>>, voltage |-> <<>>]

Init ==
    /\ channel \in Channels
    /\ num_samples \in 1 .. MaxSamples
    /\ max_successive_failures \in 0 .. MaxFailures
    /\ \E s \in ChargeSettings :
          /\ charge_current = s[1]
          /\ charge_cutoff_ratio = s[2]
    /\ charge_voltage = DefaultChargeVoltage
    /\ initially_on \in BOOLEAN
    /\ psu = [output |-> initially_on, calls |-> <<>>, voltage |-> 0, current |-> 0]
    /\ pc = "open"
    /\ successive_failures = 0
    /\ current_samples = <<>>
    /\ voltage_samples = <<>>
    /\ outcome = "none"
    /\ raised = "none"
    /\ raised_at = "none"
    /\ cause = "none"
    /\ tick = NoTick
    /\ history = <<>>

\* an exception leaves charge_lithium_ion_battery
Surface(result, e, chained) ==
    /\ pc' = "done"
    /\ outcome' = result
    /\ raised' = e
    /\ raised_at' = pc
    /\ cause' = chained

\* with KoradSerial(port) as psu: chan = psu.channels[channel]; get_channel_mode
OpenChannel ==
    /\ pc = "open"
    /\ IF ~ChannelExists(channel)
       THEN Surface("InvalidChannel", "IndexError", "none")
       ELSE IF channel \notin {0, 1}
       THEN Surface("InvalidChannel", "ValueError", "none")
       ELSE /\ pc' = "reset"
            /\ UNCHANGED <<outcome, raised, raised_at, cause>>
    /\ UNCHANGED <<args, psu, locals, tick, history>>

\* if psu.status.output: psu.output.off()
DefensiveReset ==
    /\ pc = "reset"
    /\ psu' = ResetOutput(psu)
    /\ pc' = "set_voltage"
    /\ UNCHANGED <<args, locals, outcome, raised, raised_at, cause, tick, history>>

\* a statement of _do_charge outside the loop's try (called: the supply after
\* the call): it may raise, and the exception leaves through the finally clause
EntryStep(next, called) ==
    \E e \in {"none"} \cup ReadExceptions :
        IF e = "none"
        THEN /\ psu' = called
             /\ pc' = next
             /\ UNCHANGED <<outcome, raised, raised_at, cause>>
        ELSE /\ \E sent \in BOOLEAN :
                    psu' = Finally(IF sent THEN called ELSE psu)
             /\ Surface(IF e = "KeyboardInterrupt" THEN "Interrupted" ELSE "Error",
                        e, "none")

\* chan.voltage = charge_voltage
SetVoltage ==
    /\ pc = "set_voltage"
    /\ EntryStep("set_current", set_voltage(psu, charge_voltage))
    /\ UNCHANGED <<args, locals, tick, history>>

\* chan.current = charge_current
SetCurrent ==
    /\ pc = "set_current"
    /\ EntryStep("output_on", set_current(psu, charge_current))
    /\ UNCHANGED <<args, locals, tick, history>>

\* psu.output.on(); successive_failures = 0; the two deques
EnableOutput ==
    /\ pc = "output_on"
    /\ EntryStep("tick", output_on(psu))
    /\ successive_failures' = 0
    /\ current_samples' = <<>>
    /\ voltage_samples' = <<>>
    /\ UNCHANGED <<args, tick, history>>

\* what the last iteration read and did (current, voltage: the readings the
\* two telemetry reads returned, <<>> for None or for a read that did not
\* return)
TickRecord(r, reads, result) ==
    [result |-> result, exc |-> r.exc,
     mode |-> IF reads[1].val = <<>> THEN "none" ELSE reads[1].val[1],
     before |-> successive_failures,
     computed |-> r.computed, level |-> r.level,
     current |-> reads[2].val, voltage |-> reads[3].val]

\* the record of tick results: complete, or (sliding) its last MaxTicks entries
Log(h, result, sliding) ==
    IF sliding THEN LastN(Append(h, result), MaxTicks) ELSE Append(h, result)

\* the reads a tick can make; the sessions followed without a limit on the
\* number of iterations read a voltage of 3.7 V whenever they read one
Readings(sliding) ==
    IF sliding THEN {r \in TickReads : r[3].val \in {<<>>, <<3700>>}}
    ELSE TickReads

\* one iteration of while True, up to (not including) time.sleep(1)
Iteration(sliding) ==
    /\ pc = "tick"
    /\ \E reads \in Readings(sliding) :
        LET rm == reads[1]
            rc == reads[2]
            rv == reads[3]
            r == TryBody(rm, rc, rv, current_samples, voltage_samples,
                         num_samples, charge_current, charge_cutoff_ratio,
                         charge_voltage)
        IN  /\ current_samples' = r.cs
            /\ voltage_samples' = r.vs
            /\ CASE r.exit = "raise" /\ Caught(r.exc) ->
                      /\ successive_failures' = successive_failures + 1
                      /\ tick' = TickRecord(r, reads, "failed")
                      /\ history' = Log(history, "failed", sliding)
                      /\ IF ThresholdReached(successive_failures + 1,
                                             max_successive_failures)
                         THEN /\ psu' = Finally(output_off(psu))
                              /\ Surface("Aborted", "RuntimeError", AbortCause(r.exc))
                         ELSE /\ pc' = "sleep"
                              /\ UNCHANGED <<psu, outcome, raised, raised_at, cause>>
                 [] r.exit = "raise" /\ ~Caught(r.exc) ->
                      /\ tick' = TickRecord(r, reads, "interrupted")
                      /\ psu' = Finally(psu)
                      /\ Surface("Interrupted", r.exc, "none")
                      /\ UNCHANGED <<successive_failures, history>>
                 [] r.exit = "continue" ->
                      /\ tick' = TickRecord(r, reads, "filling")
                      /\ history' = Log(history, "filling", sliding)
                      /\ pc' = "tick"
                      /\ UNCHANGED <<successive_failures, psu, outcome, raised,
                                     raised_at, cause>>
                 [] r.exit = "return" ->
                      /\ tick' = TickRecord(r, reads, "ready")
                      /\ history' = Log(history, "ready", sliding)
                      /\ psu' = Finally(psu)
                      /\ pc' = "done"
                      /\ outcome' = "Completed"
                      /\ UNCHANGED <<successive_failures, raised, raised_at, cause>>
                 [] r.exit = "else" ->
                      /\ tick' = TickRecord(r, reads, "ready")
                      /\ history' = Log(history, "ready", sliding)
                      /\ successive_failures' = 0
                      /\ pc' = "sleep"
                      /\ UNCHANGED <<psu, outcome, raised, raised_at, cause>>
    /\ UNCHANGED args

\* the loop, observed for its first MaxTicks iterations
Tick ==
    /\ Len(history) < MaxTicks
    /\ Iteration(FALSE)

\* the loop, observed without a limit on the number of iterations
TickUnbounded == Iteration(TRUE)

\* time.sleep(1)
CadenceWait ==
    /\ pc = "sleep"
    /\ \/ /\ pc' = "tick"
          /\ UNCHANGED <<psu, outcome, raised, raised_at, cause>>
       \/ /\ psu' = Finally(psu)
          /\ Surface("Interrupted", "KeyboardInterrupt", "none")
    /\ UNCHANGED <<args, locals, tick, history>>

Next ==
    \/ OpenChannel
    \/ DefensiveReset
    \/ SetVoltage
    \/ SetCurrent
    \/ EnableOutput
    \/ Tick
    \/ CadenceWait

Spec == Init /\ [][Next]_vars

NextUnbounded ==
    \/ OpenChannel
    \/ DefensiveReset
    \/ SetVoltage
    \/ SetCurrent
    \/ EnableOutput
    \/ TickUnbounded
    \/ CadenceWait

\* the sessions followed without a limit on the number of iterations: channel
\* 0, output off at the start, a setting whose estimator never faults and one
\* whose log base is 1
InitUnbounded ==
    /\ Init
    /\ channel = 0
    /\ ~initially_on
    /\ <<charge_current, charge_cutoff_ratio>> \in {<<1000, 10>>, <<5, 80>>}

\* while True: never stops iterating, and time.sleep(1) returns
LiveSpec ==
    /\ InitUnbounded
    /\ [][NextUnbounded]_vars
    /\ WF_vars(TickUnbounded)
    /\ WF_vars(CadenceWait)

\* =================================================================== claims
RECURSIVE TrailingFailures(_)
TrailingFailures(h) ==
    IF h = <<>> \/ h[Len(h)] # "failed" THEN 0
    ELSE 1 + TrailingFailures(SubSeq(h, 1, Len(h) - 1))

RECURSIVE FailuresSinceReady(_)
FailuresSinceReady(h) ==
    IF h = <<>> \/ h[Len(h)] = "ready" THEN 0
    ELSE (IF h[Len(h)] = "failed" THEN 1 ELSE 0)
           + FailuresSinceReady(SubSeq(h, 1, Len(h) - 1))

LastCallIsOff == psu.calls # <<>> /\ psu.calls[Len(psu.calls)] = "off"
OutputDisabled == ~psu.output /\ LastCallIsOff
Issued(c) == \E i \in 1 .. Len(psu.calls) : psu.calls[i] = c
IssuedBefore(c, i) == \E j \in 1 .. (i - 1) : psu.calls[j] = c

\* the three reads of the last tick all returned a value
ReadsSucceeded ==
    /\ tick.result \in {"failed", "filling", "ready"}
    /\ tick.exc \notin {"SerialException", "ValueError: output current",
                        "ValueError: output voltage"}

\* isReady(): both windows are at capacity
SmootherReady ==
    /\ Len(current_samples) = num_samples
    /\ Len(voltage_samples) = num_samples

\* meanCurrent < cutoffCurrentA on the windows the last tick left
MeanCurrentBelowCutoff ==
    100 * Sum(current_samples)
        < charge_cutoff_ratio * charge_current * Len(current_samples)

\* C1: a session that entered _do_charge and ended Completed, Aborted or with
\* an error raised while programming set-points or enabling output has the
\* output disabled, and the last command it issued to the supply is "off".
C1_OutputOffOnEveryExit ==
    (pc = "done" /\ outcome \in {"Completed", "Aborted", "Error"})
        => OutputDisabled

C1_Witness ==
    /\ pc = "done"
    /\ outcome = "Completed"
    /\ Issued("on")

\* C2: an interruption that arrives during a read of a tick or during the
\* cadence wait is not counted as a failed tick; it ends the session and the
\* output is disabled afterwards.
C2_InterruptEndsSession ==
    /\ tick.exc = "KeyboardInterrupt" =>
          /\ tick.result = "interrupted"
          /\ successive_failures = tick.before
          /\ pc = "done"
          /\ outcome = "Interrupted"
          /\ OutputDisabled
    /\ (raised = "KeyboardInterrupt" /\ raised_at = "sleep") =>
          /\ pc = "done"
          /\ outcome = "Interrupted"
          /\ OutputDisabled

C2_Witness ==
    /\ tick.exc = "KeyboardInterrupt"
    /\ history # <<>>
    /\ pc = "done"

\* C3: when the channel index is outside {0,1} the session ends with the
\* fatal error and the output is disabled.
C3_InvalidChannelOutputOff ==
    outcome = "InvalidChannel" => (raised # "none" /\ ~psu.output)

\* C4: with max_successive_failures >= 1, once max_successive_failures
\* consecutive ticks have failed the session is Aborted with the output
\* disabled and no further tick is polled.
C4_AbortAfterConsecutiveFailures ==
    max_successive_failures >= 1 =>
        /\ TrailingFailures(history) <= max_successive_failures
        /\ TrailingFailures(history) = max_successive_failures =>
              /\ pc = "done"
              /\ outcome = "Aborted"
              /\ raised = "RuntimeError"
              /\ OutputDisabled

C4_Witness ==
    /\ max_successive_failures = 2
    /\ TrailingFailures(history) = 2
    /\ outcome = "Aborted"

C6_StopIffMeanBelowCutoff ==
    (ReadsSucceeded /\ SmootherReady) =>
        ((pc = "done" /\ outcome = "Completed") <=> MeanCurrentBelowCutoff)

C6_Witness ==
    /\ ReadsSucceeded
    /\ SmootherReady
    /\ num_samples = 2
    /\ tick.mode = "constant_voltage"
    /\ outcome = "Completed"

\* C7: whenever the means have been computed or the session has Completed,
\* both the current window and the voltage window are at capacity.
C7_DecisionOnlyWhenBothWindowsFull ==
    (tick.computed \/ outcome = "Completed") => SmootherReady

\* C8: after a successful tick that finds the smoother ready (and does not
\* end the session) the failure counter is 0; after a successful tick that
\* leaves the smoother not yet ready the counter is what it was before.
C8_CounterResetOnlyWhenReady ==
    (tick.result \in {"filling", "ready"} /\ tick.exc = "none") =>
        /\ (SmootherReady /\ pc # "done") => successive_failures = 0
        /\ ~SmootherReady => successive_failures = tick.before

\* C9: an output found enabled is disabled before any set-point is
\* programmed; voltage, then current, are programmed before the output is
\* enabled; the first read of the loop comes after the output was enabled.
C9_EntryOrdering ==
    /\ \A i \in 1 .. Len(psu.calls) :
          /\ psu.calls[i] \in {"setVoltage", "setCurrent"} =>
                /\ IssuedBefore("status", i)
                /\ initially_on => IssuedBefore("off", i)
                /\ ~IssuedBefore("on", i)
          /\ psu.calls[i] = "setCurrent" => IssuedBefore("setVoltage", i)
          /\ psu.calls[i] = "on" => IssuedBefore("setCurrent", i)
    /\ (tick.result # "none" \/ history # <<>>) => Issued("on")
    /\ pc \in {"tick", "sleep"} => psu.output

C9_Witness ==
    /\ initially_on
    /\ tick.result # "none"
    /\ psu.calls[2] = "off"

\* C10: on a ready tick in constant-voltage mode with mean current <= 0.4 A
\* and log base b <= 1, the level is 1.0, no fault is raised and the tick is
\* not a failed tick.
C10_DegenerateBaseGuarded ==
    (/\ tick.computed
     /\ tick.mode = "constant_voltage"
     /\ Sum(current_samples) <= Inflection * Len(current_samples)
     /\ charge_current * (100 - charge_cutoff_ratio) <= 100) =>
        /\ tick.level.branch = "one"
        /\ tick.level.error = "none"
        /\ tick.result # "failed"
        /\ successive_failures # tick.before + 1

\* a <= b on extended rationals
LeQ(a, b) == a[1] * b[2] <= b[1] * a[2]

\* meanVoltage in [0, chargeVoltageV], meanCurrent in [0, chargeCurrentA],
\* cutoffRatio in (0, 1]
LegalInputs ==
    /\ Sum(voltage_samples) <= charge_voltage * Len(voltage_samples)
    /\ Sum(current_samples) <= charge_current * Len(current_samples)
    /\ charge_cutoff_ratio > 0
    /\ charge_cutoff_ratio <= 100

\* C11: on legal inputs the estimator yields a level, the level is in
\* [0,1], it is at most 0.5 in constant-current mode and within [0.5, 1] in
\* constant-voltage mode.
C11_ChargeLevelRange ==
    (tick.computed /\ LegalInputs) =>
        /\ tick.level.error = "none"
        /\ LeQ(<<0, 1>>, tick.level.value.lo)
        /\ LeQ(tick.level.value.hi, <<1, 1>>)
        /\ tick.mode = "constant_current" => LeQ(tick.level.value.hi, <<1, 2>>)
        /\ tick.mode = "constant_voltage" => LeQ(<<1, 2>>, tick.level.value.lo)

\* the same range, for the ticks on which the estimator yields a level
C11_RangeWhenEvaluated ==
    (tick.computed /\ LegalInputs /\ tick.level.error = "none") =>
        /\ LeQ(<<0, 1>>, tick.level.value.lo)
        /\ LeQ(tick.level.value.hi, <<1, 1>>)
        /\ tick.mode = "constant_current" => LeQ(tick.level.value.hi, <<1, 2>>)
        /\ tick.mode = "constant_voltage" => LeQ(<<1, 2>>, tick.level.value.lo)

\* C12: the cadence wait precedes the next tick after every failed tick that
\* does not abort and after every successful ready tick that does not
\* complete; after a successful tick that leaves the smoother not yet ready
\* the next poll follows without a wait; no wait follows a tick that ends the
\* session.  (pc = "sleep": the wait is pending; pc = "tick": the next poll is
\* next; a step that changes history is a tick.)
C12_Cadence ==
    [][/\ pc = "sleep" => history' = history
       /\ history' # history =>
            /\ (tick'.result = "failed" /\ outcome' # "Aborted")
                  => pc' = "sleep"
            /\ (tick'.result \in {"filling", "ready"} /\ SmootherReady'
                  /\ outcome' # "Completed") => pc' = "sleep"
            /\ (tick'.result \in {"filling", "ready"} /\ ~SmootherReady')
                  => pc' = "tick"
            /\ outcome' \in {"Aborted", "Completed"} => pc' = "done"]_vars

\* the three reads of the tick taken by this step all returned
ReadsReturned == pc = "tick" /\ tick'.exc \notin ReadExceptions

\* C13: each window has at most num_samples elements, all of them real
\* readings; a tick whose reads return appends its non-absent reading at the
\* end and evicts the oldest element of a full window, so that the window is
\* always the most recent min(k, num_samples) readings pushed; no other step
\* changes a window, and a window never gets shorter.
C13_WindowsAreRecentReadings ==
    /\ [](/\ Len(current_samples) <= num_samples
          /\ Len(voltage_samples) <= num_samples
          /\ \A i \in 1 .. Len(current_samples) :
                current_samples[i] \in CurrentValues
          /\ \A i \in 1 .. Len(voltage_samples) :
                voltage_samples[i] \in VoltageValues)
    /\ [][/\ current_samples' =
                IF ReadsReturned
                THEN LastN(current_samples \o tick'.current, num_samples)
                ELSE current_samples
          /\ voltage_samples' =
                IF ReadsReturned
                THEN LastN(voltage_samples \o tick'.voltage, num_samples)
                ELSE voltage_samples
          /\ Len(current_samples') >= Len(current_samples)
          /\ Len(voltage_samples') >= Len(voltage_samples)]_vars

C13_Witness ==
    /\ num_samples = 2
    /\ Len(history) = 3
    /\ \A i \in 1 .. 3 : history[i] # "failed"
    /\ current_samples = <<500, 5>>
    /\ voltage_samples = <<4200, 3700>>

\* C14: a tick whose reads return with the current or the voltage absent is
\* a failed tick: the counter grows by exactly one, the session stays in
\* Sampling (cadence wait next) unless the threshold is reached, and the
\* reading that was present is appended to its own window; a tick on which a
\* read raises leaves both windows unchanged.
C14_AbsentReadingIsFailedTick ==
    [][pc = "tick" =>
        /\ (ReadsReturned /\ (tick'.current = <<>> \/ tick'.voltage = <<>>)) =>
              /\ tick'.result = "failed"
              /\ history' = Append(history, "failed")
              /\ successive_failures' = successive_failures + 1
              /\ IF successive_failures' >= max_successive_failures
                 THEN pc' = "done" /\ outcome' = "Aborted"
                 ELSE pc' = "sleep" /\ outcome' = "none"
              /\ current_samples' =
                    LastN(current_samples \o tick'.current, num_samples)
              /\ voltage_samples' =
                    LastN(voltage_samples \o tick'.voltage, num_samples)
        /\ tick'.exc \in ReadExceptions =>
              /\ current_samples' = current_samples
              /\ voltage_samples' = voltage_samples]_vars

C14_Witness ==
    /\ tick.exc = "ValueError: output voltage"
    /\ tick.current = <<500>>
    /\ current_samples = <<5, 500>>
    /\ voltage_samples = <<3700>>
    /\ successive_failures = 1
    /\ pc = "sleep"

\* C15: the reason an Aborted session surfaces is the error of its last
\* failed tick, the one on which the counter reached the threshold.
C15_AbortReasonIsLastError ==
    outcome = "Aborted" =>
        /\ raised = "RuntimeError"
        /\ tick.result = "failed"
        /\ cause # "none"
        /\ cause = tick.exc
        /\ cause = "ValueError: output current" => tick.current = <<>>
        /\ cause = "ValueError: output voltage" =>
              (tick.current # <<>> /\ tick.voltage = <<>>)
        /\ cause = "SerialException" => tick.voltage = <<>>

\* two failed ticks with different errors: the first one did not append a
\* current reading, the second one did
C15_Witness ==
    /\ outcome = "Aborted"
    /\ num_samples = 2
    /\ history = <<"failed", "failed">>
    /\ cause = "ValueError: output voltage"
    /\ Len(current_samples) = 1

\* C16: while the session is in Sampling the counter is between 0 and
\* max(max_successive_failures - 1, 0); a step changes it only by +1 on a
\* failed tick or by a reset to 0; and a step that brings it to
\* max_successive_failures (or above) is the tick that aborts the session.
C16_CounterBounds ==
    /\ [](pc \in {"tick", "sleep"} =>
            /\ successive_failures >= 0
            /\ successive_failures <= IF max_successive_failures >= 1
                                      THEN max_successive_failures - 1
                                      ELSE 0)
    /\ [][successive_failures' # successive_failures =>
            /\ \/ /\ successive_failures' = successive_failures + 1
                  /\ pc = "tick"
                  /\ tick'.result = "failed"
               \/ successive_failures' = 0
            /\ successive_failures' >= max_successive_failures =>
                  (pc = "tick" /\ pc' = "done" /\ outcome' = "Aborted")]_vars

C16_Witness ==
    /\ pc = "tick"
    /\ max_successive_failures = 2
    /\ successive_failures = 1
    /\ tick.result = "failed"

RECURSIVE Count(_, _)
Count(h, x) ==
    IF h = <<>> THEN 0
    ELSE (IF Head(h) = x THEN 1 ELSE 0) + Count(Tail(h), x)

\* C17: a tick followed by an immediate re-poll (no cadence wait) is a tick
\* that adds a reading to a current window that stays short of full, so there
\* are at most num_samples - 1 of them in a session; once the current window
\* is full every tick that does not end the session is followed by the wait.
C17_FastFillBounded ==
    /\ [](/\ Count(history, "filling") <= num_samples - 1
          /\ Count(history, "filling") <= Len(current_samples))
    /\ [][pc = "tick" =>
            /\ pc' = "tick" =>
                  /\ history' = Append(history, "filling")
                  /\ Len(current_samples') = Len(current_samples) + 1
                  /\ Len(current_samples') < num_samples
            /\ (Len(current_samples) = num_samples /\ pc' # "done") =>
                  pc' = "sleep"]_vars

C17_Witness ==
    /\ num_samples = 2
    /\ history = <<"filling", "ready", "failed">>
    /\ pc = "sleep"

\* C18: "on" is issued at most once, after both set-points were programmed,
\* and every command issued after it is "off".
C18_EnableOnceThenOnlyDisable ==
    /\ Count(psu.calls, "on") <= 1
    /\ \A i \in 1 .. Len(psu.calls) :
          psu.calls[i] = "on" =>
              /\ IssuedBefore("setVoltage", i)
              /\ IssuedBefore("setCurrent", i)
              /\ \A j \in (i + 1) .. Len(psu.calls) : psu.calls[j] = "off"
    /\ pc = "done" => Count(psu.calls, "on") <= Count(psu.calls, "off")

C18_Witness ==
    /\ outcome = "Aborted"
    /\ initially_on
    /\ psu.calls = <<"status", "off", "setVoltage", "setCurrent", "on", "off", "off">>

\* C19: with max_successive_failures = 0, as with 1, the session is Aborted
\* exactly when a tick has failed: no abort before the first failed tick, and
\* the first failed tick aborts it with the output disabled.
C19_ZeroThresholdActsAsOne ==
    max_successive_failures \in {0, 1} =>
        /\ Count(history, "failed") <= 1
        /\ Count(history, "failed") = 1 <=> outcome = "Aborted"
        /\ outcome = "Aborted" =>
              /\ history[Len(history)] = "failed"
              /\ pc = "done"
              /\ raised = "RuntimeError"
              /\ OutputDisabled

C19_Witness ==
    /\ max_successive_failures = 0
    /\ outcome = "Aborted"
    /\ history = <<"filling", "ready", "failed">>

\* every reading in the current window is below the cutoff
ReadingsBelowCutoff ==
    \A i \in 1 .. Len(current_samples) :
        100 * current_samples[i] < charge_cutoff_ratio * charge_current

\* k ticks have been taken, the reads of each returned a value and none of
\* the first k - 1 ended the loop
CleanRun(k) ==
    /\ Len(history) = k
    /\ k <= num_samples
    /\ \A i \in 1 .. k - 1 : history[i] = "filling"
    /\ ReadsSucceeded

\* C20: if every read of every tick succeeds and every current reading is
\* below the cutoff, the session is Completed, output disabled, on tick number
\* num_samples and not before (every earlier tick only fills the window); and
\* if from some tick on every tick fails (and no interrupt ends the session),
\* the session is eventually Aborted.
C20_CompletesOnTickNAndAbortsEventually ==
    /\ [](\A k \in 1 .. num_samples :
            (CleanRun(k) /\ ReadingsBelowCutoff) =>
                /\ Len(current_samples) = k
                /\ IF k = num_samples
                   THEN /\ tick.result = "ready"
                        /\ pc = "done"
                        /\ outcome = "Completed"
                        /\ OutputDisabled
                   ELSE /\ tick.result = "filling"
                        /\ pc = "tick"
                        /\ outcome = "none"
                        /\ psu.output)
    /\ (<>[](tick.result = "failed") /\ [](outcome # "Interrupted"))
          => <>(outcome = "Aborted" /\ OutputDisabled)

C20_Witness ==
    /\ num_samples = 2
    /\ CleanRun(2)
    /\ ReadingsBelowCutoff
    /\ history = <<"filling", "ready">>
    /\ outcome = "Completed"

====
